---- MODULE Spec2Model ----
(***************************************************************************)
(* Authentication, brute-force throttle and role-based authorization of    *)
(* the documentation server (handlers/auth.go, the admin and preview       *)
(* handlers, the db queries and the routes of cmd/server/main.go).         *)
(*                                                                         *)
(* Time is counted in minutes.  A request is a process in a slot of `req`: *)
(* RequireAuth, the role gate and the route's handler are separate steps,  *)
(* each one an atomic access to the store or to the mutex-guarded map, so  *)
(* that concurrent requests interleave between them.  `ev` is the outcome  *)
(* of the step taken last (what was written to the response, and the facts *)
(* about the state the step started from).                                 *)
(*                                                                         *)
(* generateToken draws 64 random bytes; a draw is modelled as a token that *)
(* was never drawn before (`minted` counts them).  A bcrypt hash is        *)
(* modelled as an injective image of the password.  Store calls succeed    *)
(* unless the query itself finds no row.                                   *)
(***************************************************************************)
EXTENDS Integers, Sequences, FiniteSets, TLC

\* ---- bounds of the model ------------------------------------------------
MaxTicks == 2
MaxTokens == 2
MaxReqs == 2
MaxCount == 4
MaxAnswer == 12
MaxResetTokens == 3

\* ---- program constants --------------------------------------------------
challengeThresholdLate == 3 + 1

challengeThreshold == 3
FailWindow == 15
sessionDuration == 24 * 60
resetTokenTTL == 48 * 60

Reqs == 1..MaxReqs
Users == {"u1", "u2"}
NoUser == "nil"
Roles == {"admin", "editor", "ops"}
RoleOrder == <<"admin", "editor", "ops">>
Passwords == {"changeme1", "changeme2"}
IPs == {"10.0.0.5", "10.0.0.6"}
\* The address whose login attempts the history variables record.
WatchedIP == "10.0.0.7"
Addresses == IPs \cup {WatchedIP}

\* ---- strings that are joined and split ----------------------------------
\* A string that holds role names is a sequence of atoms: a role name, or
\* the separator ",".  The empty string is <<>>.
Str(name) == IF name = "" THEN <<>> ELSE <<name>>

RECURSIVE Join(_)
Join(list) ==
    IF list = <<>> THEN <<>>
    ELSE IF Len(list) = 1 THEN Str(list[1])
    ELSE Str(list[1]) \o <<",">> \o Join(Tail(list))

Name(piece) == IF piece = <<>> THEN "" ELSE piece[1]

RECURSIVE Split(_)
Split(s) ==
    IF \A i \in 1..Len(s) : s[i] # ","
    THEN <<Name(s)>>
    ELSE LET i == CHOOSE k \in 1..Len(s) :
                      s[k] = "," /\ \A j \in 1..(k - 1) : s[j] # ","
         IN  <<Name(SubSeq(s, 1, i - 1))>> \o Split(SubSeq(s, i + 1, Len(s)))

Range(list) == {list[i] : i \in 1..Len(list)}

\* ---- variables -----------------------------------------------------------
VARIABLES
    now,           \* the clock, in minutes
    ticks,         \* how often the clock advanced
    userRoles,     \* user_roles joined with roles: user -> set of role names
    userPass,      \* users.password: user -> bcrypt hash
    sessions,      \* the sessions table: a set of rows
    resetTokens,   \* the password_reset_tokens table: a set of rows
    minted,        \* how many tokens generateToken has drawn
    failedLogins,  \* the failedLogins map: address -> record, or absent
    req,           \* the requests in flight
    ev,            \* the outcome of the last step
    loggedOut,     \* the session tokens a Logout has deleted
    consumed,      \* the reset tokens that have changed a password
    firstAccepted, \* the first challenge answer and token that Login accepted
                   \* from WatchedIP
    unchallengedFails  \* the failed credential checks from WatchedIP made
                   \* without an accepted challenge since the clock last
                   \* advanced (at most challengeThreshold + 1 are counted)

vars == <<now, ticks, userRoles, userPass, sessions, resetTokens, minted,
          failedLogins, req, ev, loggedOut, consumed, unchallengedFails, firstAccepted>>

\* ---- request context ------------------------------------------------------
\* previewSet/previewRoles: the value under previewRolesContextKey, when set.
EmptyCtx == [user |-> NoUser, previewSet |-> FALSE, previewRoles |-> <<>>,
             sessionToken |-> 0]

PreviewRolesFromContextEmptyIsNil(ctx) ==
    IF ~ctx.previewSet \/ ctx.previewRoles = <<>>
    THEN [nil |-> TRUE, list |-> <<>>]
    ELSE [nil |-> FALSE, list |-> Split(ctx.previewRoles)]

PreviewRolesFromContext(ctx) ==
    IF ~ctx.previewSet THEN [nil |-> TRUE, list |-> <<>>]
    ELSE IF ctx.previewRoles = <<>> THEN [nil |-> FALSE, list |-> <<>>]
    ELSE [nil |-> FALSE, list |-> Split(ctx.previewRoles)]

inPreviewMode(ctx) == ~PreviewRolesFromContext(ctx).nil

UserFromContext(ctx) == ctx.user

sessionTokenFromContext(ctx) == ctx.sessionToken

\* ---- store queries --------------------------------------------------------
HasRole(u, role) == u \in Users /\ role \in userRoles[u]

GetUserRoles(u) ==
    IF u \in Users
    THEN SelectSeq(RoleOrder, LAMBDA n : n \in userRoles[u])
    ELSE <<>>

SessionRows(token) == {s \in sessions : s.token = token}

GetSessionByTokenInclusive(token) ==
    {s \in sessions : s.token = token /\ s.expires_at >= now}

GetSessionByTokenAnyAge(token) == {s \in sessions : s.token = token}

GetSessionByToken(token) ==
    {s \in sessions : s.token = token /\ s.expires_at > now}

GetUserByID(id) == {u \in Users : u = id}

GetUserByEmail(email) == {u \in Users : u = email}

Hash(password) == <<"bcrypt", password>>

CompareHashAndPassword(hash, password) == hash = Hash(password)

CreateSession(userID, token, expiresAt) ==
    sessions \cup {[token |-> token, user_id |-> userID,
                    expires_at |-> expiresAt, created_at |-> now,
                    previewSet |-> FALSE, preview_roles |-> <<>>]}

SetSessionPreviewRolesEveryRow(token, roles) ==
    {[s EXCEPT !.previewSet = TRUE, !.preview_roles = roles] : s \in sessions}

SetSessionPreviewRoles(token, roles) ==
    {IF s.token = token
     THEN [s EXCEPT !.previewSet = TRUE, !.preview_roles = roles]
     ELSE s : s \in sessions}

ClearSessionPreviewRolesToEmpty(token) ==
    {IF s.token = token
     THEN [s EXCEPT !.previewSet = TRUE, !.preview_roles = <<>>]
     ELSE s : s \in sessions}

ClearSessionPreviewRoles(token) ==
    {IF s.token = token
     THEN [s EXCEPT !.previewSet = FALSE, !.preview_roles = <<>>]
     ELSE s : s \in sessions}

DeleteSession(token) == {s \in sessions : s.token # token}

DeleteExpiredSessionsAhead ==
    {s \in sessions : ~(s.expires_at <= now + sessionDuration)}

DeleteExpiredSessions == {s \in sessions : ~(s.expires_at <= now)}

UpdateUserPassword(id, hash) ==
    [u \in Users |-> IF u = id THEN hash ELSE userPass[u]]

SetUserRoles(id, roleNames) ==
    [u \in Users |-> IF u = id THEN Range(roleNames) \cap Roles
                     ELSE userRoles[u]]

GetPasswordResetToken(token) ==
    {t \in resetTokens : t.token = token /\ t.expires_at > now}

CreatePasswordResetToken(userID, token, expiresAt) ==
    resetTokens \cup {[token |-> token, user_id |-> userID,
                       expires_at |-> expiresAt]}

DeletePasswordResetTokensForUser(userID) ==
    {t \in resetTokens : t.user_id # userID}

generateTokenRepeats == IF minted = 0 THEN 1 ELSE minted

generateToken == minted + 1

\* ---- authorization decisions ---------------------------------------------
canAccessSectionAdminFirst(ctx, requiredRole) ==
    IF requiredRole = "" THEN TRUE
    ELSE IF UserFromContext(ctx) # NoUser /\ HasRole(ctx.user, "admin") THEN TRUE
    ELSE IF inPreviewMode(ctx)
    THEN requiredRole \in Range(PreviewRolesFromContext(ctx).list)
    ELSE IF UserFromContext(ctx) = NoUser THEN FALSE
    ELSE HasRole(ctx.user, requiredRole)

canAccessSection(ctx, requiredRole) ==
    IF requiredRole = "" THEN TRUE
    ELSE IF inPreviewMode(ctx)
    THEN requiredRole \in Range(PreviewRolesFromContext(ctx).list)
    ELSE IF UserFromContext(ctx) = NoUser THEN FALSE
    ELSE IF HasRole(ctx.user, "admin") THEN TRUE
    ELSE HasRole(ctx.user, requiredRole)

isAdmin(ctx) ==
    IF inPreviewMode(ctx) THEN FALSE
    ELSE IF UserFromContext(ctx) = NoUser THEN FALSE
    ELSE HasRole(ctx.user, "admin")

isEditor(ctx) ==
    IF inPreviewMode(ctx) THEN FALSE
    ELSE IF UserFromContext(ctx) = NoUser THEN FALSE
    ELSE IF HasRole(ctx.user, "admin") THEN TRUE
    ELSE HasRole(ctx.user, "editor")

\* What a gate does with a request: "redirect" (303 to /), "forbidden"
\* (the 403 page) or "next" (the wrapped handler runs).
\* `fail`: the HasRole calls of the gate return an error; the gates drop the
\* error and keep the zero value, false.
RequireEditor(ctx, fail) ==
    IF inPreviewMode(ctx) THEN "redirect"
    ELSE IF UserFromContext(ctx) = NoUser THEN "forbidden"
    ELSE IF ~fail /\ HasRole(ctx.user, "admin") THEN "next"
    ELSE IF ~fail /\ HasRole(ctx.user, "editor") THEN "next"
    ELSE "forbidden"

RequireAdmin(ctx, fail) ==
    IF inPreviewMode(ctx) THEN "redirect"
    ELSE IF UserFromContext(ctx) = NoUser THEN "forbidden"
    ELSE IF ~(~fail /\ HasRole(ctx.user, "admin")) THEN "forbidden"
    ELSE "next"

\* ---- the failure map (one mutex: each operation is atomic) ----------------
NoRecord == [present |-> FALSE, Count |-> 0, LastFail |-> 0]

StaleAtWindow(fl) == now - fl.LastFail >= FailWindow

Stale(fl) == now - fl.LastFail > FailWindow

\* getFailCount: the count it returns, and the map it leaves.
getFailCount(ip) ==
    LET fl == failedLogins[ip]
    IN  IF ~fl.present THEN [count |-> 0, map |-> failedLogins]
        ELSE IF Stale(fl)
        THEN [count |-> 0, map |-> [failedLogins EXCEPT ![ip] = NoRecord]]
        ELSE [count |-> fl.Count, map |-> failedLogins]

recordFailLost(ip) ==
    LET fl == failedLogins[ip]
    IN  IF ~fl.present \/ Stale(fl)
        THEN [count |-> 1,
              map |-> [failedLogins EXCEPT
                         ![ip] = [present |-> TRUE, Count |-> 1, LastFail |-> now]]]
        ELSE [count |-> fl.Count,
              map |-> [failedLogins EXCEPT
                         ![ip] = [present |-> TRUE, Count |-> fl.Count,
                                  LastFail |-> now]]]

recordFail(ip) ==
    LET fl == failedLogins[ip]
    IN  IF ~fl.present \/ Stale(fl)
        THEN [count |-> 1,
              map |-> [failedLogins EXCEPT
                         ![ip] = [present |-> TRUE, Count |-> 1, LastFail |-> now]]]
        ELSE [count |-> fl.Count + 1,
              map |-> [failedLogins EXCEPT
                         ![ip] = [present |-> TRUE, Count |-> fl.Count + 1,
                                  LastFail |-> now]]]

clearFailsKeeps(ip) == failedLogins

clearFails(ip) == [failedLogins EXCEPT ![ip] = NoRecord]

\* ---- the challenge --------------------------------------------------------
\* Text is a sequence of one-character strings; "" is <<>>.
Digits == <<"0", "1", "2", "3", "4", "5", "6", "7", "8", "9">>

IsDigit(c) == \E i \in 1..10 : Digits[i] = c

DigitVal(c) == (CHOOSE i \in 1..10 : Digits[i] = c) - 1

RECURSIVE ItoaNat(_)
ItoaNat(n) ==
    IF n < 10 THEN <<Digits[n + 1]>>
    ELSE ItoaNat(n \div 10) \o <<Digits[(n % 10) + 1]>>

\* strconv.Itoa
Itoa(n) == IF n < 0 THEN <<"-">> \o ItoaNat(0 - n) ELSE ItoaNat(n)

IsSpace(c) == c \in {" ", "\t", "\n"}

RECURSIVE TrimLeft(_)
TrimLeft(s) ==
    IF s # <<>> /\ IsSpace(Head(s)) THEN TrimLeft(Tail(s)) ELSE s

RECURSIVE TrimRight(_)
TrimRight(s) ==
    IF s # <<>> /\ IsSpace(s[Len(s)])
    THEN TrimRight(SubSeq(s, 1, Len(s) - 1)) ELSE s

\* strings.TrimSpace
TrimSpace(s) == TrimRight(TrimLeft(s))

RECURSIVE ParseNat(_)
ParseNat(s) ==
    IF s = <<>> THEN 0
    ELSE 10 * ParseNat(SubSeq(s, 1, Len(s) - 1)) + DigitVal(s[Len(s)])

\* strconv.Atoi: an optional sign, then one or more decimal digits (the
\* answers submitted are short: no value leaves the range of int).
Atoi(s) ==
    LET signed == s # <<>> /\ Head(s) \in {"+", "-"}
        body == IF signed THEN Tail(s) ELSE s
    IN  IF body = <<>> \/ \E i \in 1..Len(body) : ~IsDigit(body[i])
        THEN [ok |-> FALSE, n |-> 0]
        ELSE [ok |-> TRUE,
              n |-> IF signed /\ Head(s) = "-"
                    THEN 0 - ParseNat(body) ELSE ParseNat(body)]

\* An HMAC-SHA256 under the process secret of the answer's decimal form, in
\* hex: injective in the text it signs.
signAnswer(answer) == <<"hmac", Itoa(answer)>>

verifyChallengeAnyToken(userAnswer, token) ==
    Atoi(TrimSpace(userAnswer)).ok

verifyChallengeOnce(userAnswer, token) ==
    LET a == Atoi(TrimSpace(userAnswer))
    IN  IF ~a.ok \/ firstAccepted.present THEN FALSE
        ELSE signAnswer(a.n) = token

verifyChallenge(userAnswer, token) ==
    LET a == Atoi(TrimSpace(userAnswer))
    IN  IF ~a.ok THEN FALSE ELSE signAnswer(a.n) = token

numberWords ==
    <<"one", "two", "three", "four", "five", "six", "seven", "eight",
      "nine", "ten", "eleven", "twelve", "thirteen", "fourteen", "fifteen",
      "sixteen", "seventeen", "eighteen", "nineteen", "twenty">>

formatNum(n, useWord) ==
    IF useWord /\ n >= 1 /\ n <= 20 THEN <<numberWords[n]>> ELSE Itoa(n)

generateChallengeLeftToRight(variant, a, b, c, useWord, wordC) ==
    CASE variant = 0 ->
           [Question |-> formatNum(a, useWord) \o <<" x ">>
                         \o formatNum(b, ~useWord) \o <<" + ">>
                         \o formatNum(c, wordC),
            Token |-> signAnswer(a * b + c)]
      [] variant = 1 ->
           [Question |-> formatNum(a, useWord) \o <<" x ">>
                         \o formatNum(b, ~useWord) \o <<" - ">> \o Itoa(c),
            Token |-> signAnswer(a * b - c)]
      [] variant = 2 ->
           [Question |-> formatNum(a, TRUE) \o <<" + ">> \o formatNum(b, TRUE),
            Token |-> signAnswer(a + b)]
      [] OTHER ->
           [Question |-> formatNum(a, wordC) \o <<" + ">>
                         \o formatNum(b, useWord) \o <<" x ">>
                         \o formatNum(c, ~useWord),
            Token |-> signAnswer((a + b) * c)]

\* generateChallenge with its random draws as arguments: the variant, the
\* three operands (the variants that use two ignore c) and the two coin
\* flips.  The question is the text shown, the token signs the answer.
generateChallenge(variant, a, b, c, useWord, wordC) ==
    CASE variant = 0 ->
           [Question |-> formatNum(a, useWord) \o <<" x ">>
                         \o formatNum(b, ~useWord) \o <<" + ">>
                         \o formatNum(c, wordC),
            Token |-> signAnswer(a * b + c)]
      [] variant = 1 ->
           [Question |-> formatNum(a, useWord) \o <<" x ">>
                         \o formatNum(b, ~useWord) \o <<" - ">> \o Itoa(c),
            Token |-> signAnswer(a * b - c)]
      [] variant = 2 ->
           [Question |-> formatNum(a, TRUE) \o <<" + ">> \o formatNum(b, TRUE),
            Token |-> signAnswer(a + b)]
      [] OTHER ->
           [Question |-> formatNum(a, wordC) \o <<" + ">>
                         \o formatNum(b, useWord) \o <<" x ">>
                         \o formatNum(c, ~useWord),
            Token |-> signAnswer(a + b * c)]

NoChallenge == [Question |-> <<>>, Token |-> <<>>]

\* ---- requests -------------------------------------------------------------
PublicRoutes == {"login", "reset_password"}
EditorRoutes == {"preview"}
AdminRoutes == {"admin_update_user", "admin_send_reset"}
OpenRoutes == {"home", "section", "logout", "preview_stop"}

NoAccepted == [present |-> FALSE, answer |-> <<>>, token |-> <<>>]

Idle == [pc |-> "idle", route |-> "", ctx |-> EmptyCtx, ip |-> "",
         msg |-> "", chal |-> FALSE, id |-> NoUser, token |-> 0,
         password |-> "", fail |-> ""]

NoCookie == [present |-> FALSE, value |-> 0]
Cookie(t) == [present |-> TRUE, value |-> t]

\* What became of the token a cookie carries (none: no cookie): it has a row
\* that is still good or is past its expiry, a Logout deleted it, its row is
\* gone otherwise, or generateToken never drew it.
TokenClass(cookie) ==
    IF ~cookie.present THEN "none"
    ELSE IF \E s \in sessions : s.token = cookie.value /\ now < s.expires_at
    THEN "valid"
    ELSE IF \E s \in sessions : s.token = cookie.value THEN "expired"
    ELSE IF cookie.value \in loggedOut THEN "loggedOut"
    ELSE IF cookie.value \in 1..minted THEN "gone"
    ELSE "never"

NoEv == [op |-> "none", route |-> "", status |-> 0,
         location |-> "", clearCookie |-> FALSE, setCookie |-> 0,
         next |-> FALSE, ctx |-> EmptyCtx, cookie |-> NoCookie,
         tokenClass |-> "none", requiredRole |-> "", canAccess |-> FALSE,
         isAdmin |-> FALSE, isEditor |-> FALSE, uid |-> NoUser,
         ip |-> "", count |-> 0, chal |-> FALSE, msg |-> "",
         showChallenge |-> FALSE, prev |-> NoRecord,
         challenge |-> NoChallenge, cAnswer |-> <<>>, cToken |-> <<>>,
         fail |-> ""]

Redirect(e, to) == [e EXCEPT !.status = 303, !.location = to]

Init ==
    /\ now = 0
    /\ ticks = 0
    /\ userRoles = [u \in Users |->
                      IF u = "u1" THEN {"admin", "editor"} ELSE {"editor"}]
    /\ userPass = [u \in Users |-> Hash("changeme1")]
    /\ sessions = {}
    /\ resetTokens = {}
    /\ minted = 0
    /\ failedLogins = [ip \in Addresses |-> NoRecord]
    /\ req = [r \in Reqs |-> Idle]
    /\ ev = NoEv
    /\ loggedOut = {}
    /\ consumed = {}
    /\ unchallengedFails = 0
    /\ firstAccepted = NoAccepted

Tick(d) ==
    /\ ticks < MaxTicks
    /\ now' = now + d
    /\ ticks' = ticks + 1
    /\ ev' = [NoEv EXCEPT !.op = "Tick"]
    /\ unchallengedFails' = 0
    /\ UNCHANGED <<userRoles, userPass, sessions, resetTokens, minted,
                   failedLogins, req, loggedOut, consumed,
                   firstAccepted>>

\* One round of the hourly cleanup goroutine: DeleteExpiredSessions, and a
\* log line when it returns an error (`fail`).  The loop then waits for the
\* next tick of its ticker, whatever the call returned.
Sweep(fail) ==
    /\ sessions' = IF fail THEN sessions ELSE DeleteExpiredSessions
    /\ ev' = [NoEv EXCEPT !.op = "Sweep",
                          !.fail = IF fail THEN "DeleteExpiredSessions" ELSE "",
                          !.msg = IF fail THEN "session cleanup failed" ELSE ""]
    /\ UNCHANGED <<now, ticks, userRoles, userPass, resetTokens, minted,
                   failedLogins, req, loggedOut, consumed,
                   unchallengedFails, firstAccepted>>

\* The context RequireAuth hands on: the user, the session token and, when
\* the row's preview_roles is not NULL, the preview roles.
SessionCtx(s) ==
    [user |-> s.user_id, previewSet |-> s.previewSet,
     previewRoles |-> IF s.previewSet THEN s.preview_roles ELSE <<>>,
     sessionToken |-> s.token]

\* RequireAuth, entered by a new request for `route` carrying `cookie`.  The
\* request takes the lowest free slot (the slots are interchangeable).
RequireAuth(r, route, cookie, fail) ==
    /\ req[r].pc = "idle"
    /\ \A q \in Reqs : q < r => req[q].pc # "idle"
    /\ LET e == [NoEv EXCEPT !.op = "RequireAuth", !.route = route,
                             !.cookie = cookie,
                             !.tokenClass = TokenClass(cookie),
                             !.fail =
                                IF route \in PublicRoutes \/ ~cookie.present
                                   \/ (/\ fail = "GetUserByID"
                                       /\ GetSessionByToken(cookie.value) = {})
                                THEN "" ELSE fail]
           session == IF fail = "GetSessionByToken" THEN {}
                      ELSE GetSessionByToken(cookie.value)
       IN  IF route \in PublicRoutes
           THEN /\ req' = [req EXCEPT ![r] =
                             [Idle EXCEPT !.route = route,
                                          !.pc = IF route = "login" THEN "login"
                                                 ELSE "handler"]]
                /\ ev' = [e EXCEPT !.next = TRUE]
           ELSE IF ~cookie.present
           THEN /\ req' = req
                /\ ev' = Redirect(e, "/login")
           ELSE IF session = {}
           THEN /\ req' = req
                /\ ev' = [Redirect(e, "/login") EXCEPT !.clearCookie = TRUE]
           ELSE LET s == CHOOSE x \in session : TRUE
                IN  IF fail = "GetUserByID" \/ GetUserByID(s.user_id) = {}
                    THEN /\ req' = req
                         /\ ev' = Redirect(e, "/login")
                    ELSE LET ctx == SessionCtx(s)
                         IN  /\ req' = [req EXCEPT ![r] =
                                          [Idle EXCEPT
                                             !.route = route, !.ctx = ctx,
                                             !.pc = IF route \in OpenRoutes
                                                    THEN "handler" ELSE "gate"]]
                             /\ ev' = [e EXCEPT !.next = TRUE, !.ctx = ctx]
    /\ UNCHANGED <<now, ticks, userRoles, userPass, sessions, resetTokens,
                   minted, failedLogins, loggedOut, consumed,
                   unchallengedFails, firstAccepted>>

\* RequireEditor or RequireAdmin, whichever the route is wrapped in.
Gate(r, fail) ==
    /\ req[r].pc = "gate"
    /\ LET ctx == req[r].ctx
           d == IF req[r].route \in EditorRoutes
                THEN RequireEditor(ctx, fail) ELSE RequireAdmin(ctx, fail)
           e == [NoEv EXCEPT !.op = IF req[r].route \in EditorRoutes
                                    THEN "RequireEditor" ELSE "RequireAdmin",
                             !.route = req[r].route, !.ctx = ctx,
                             !.fail =
                                IF fail /\ ~inPreviewMode(ctx)
                                   /\ UserFromContext(ctx) # NoUser
                                THEN "HasRole" ELSE ""]
       IN  /\ req' = [req EXCEPT ![r] = IF d = "next"
                                        THEN [@ EXCEPT !.pc = "handler"]
                                        ELSE Idle]
           /\ ev' = IF d = "next" THEN [e EXCEPT !.next = TRUE]
                    ELSE IF d = "redirect" THEN Redirect(e, "/")
                    ELSE [e EXCEPT !.status = 403]
    /\ UNCHANGED <<now, ticks, userRoles, userPass, sessions, resetTokens,
                   minted, failedLogins, loggedOut, consumed,
                   unchallengedFails, firstAccepted>>

Handling(r, route) == req[r].pc = "handler" /\ req[r].route = route

StartPreview(r, userIDVal, roles) ==
    /\ Handling(r, "preview")
    /\ LET token == sessionTokenFromContext(req[r].ctx)
           joined == IF userIDVal # "" THEN Join(GetUserRoles(userIDVal))
                     ELSE Join(roles)
           e == [NoEv EXCEPT !.op = "StartPreview",
                             !.ctx = req[r].ctx]
       IN  /\ sessions' = IF token = 0 THEN sessions
                          ELSE SetSessionPreviewRoles(token, joined)
           /\ ev' = Redirect(e, "/")
    /\ req' = [req EXCEPT ![r] = Idle]
    /\ UNCHANGED <<now, ticks, userRoles, userPass, resetTokens, minted,
                   failedLogins, loggedOut, consumed,
                   unchallengedFails, firstAccepted>>

StopPreview(r) ==
    /\ Handling(r, "preview_stop")
    /\ LET token == sessionTokenFromContext(req[r].ctx)
           e == [NoEv EXCEPT !.op = "StopPreview",
                             !.ctx = req[r].ctx]
       IN  /\ sessions' = IF token = 0 THEN sessions
                          ELSE ClearSessionPreviewRoles(token)
           /\ ev' = Redirect(e, "/")
    /\ req' = [req EXCEPT ![r] = Idle]
    /\ UNCHANGED <<now, ticks, userRoles, userPass, resetTokens, minted,
                   failedLogins, loggedOut, consumed,
                   unchallengedFails, firstAccepted>>

\* The cookie Logout reads is the one RequireAuth accepted: its value is the
\* session token in the context.
Logout(r) ==
    /\ Handling(r, "logout")
    /\ LET token == req[r].ctx.sessionToken
           e == [NoEv EXCEPT !.op = "Logout", !.ctx = req[r].ctx,
                             !.cookie = Cookie(token), !.clearCookie = TRUE]
       IN  /\ sessions' = DeleteSession(token)
           /\ loggedOut' = loggedOut \cup {token}
           /\ ev' = Redirect(e, "/login")
    /\ req' = [req EXCEPT ![r] = Idle]
    /\ UNCHANGED <<now, ticks, userRoles, userPass, resetTokens, minted,
                   failedLogins, consumed,
                   unchallengedFails, firstAccepted>>

\* Home computes isEditor, isAdmin and, per section, canAccessSection.
Home(r, requiredRole) ==
    /\ Handling(r, "home")
    /\ LET ctx == req[r].ctx
       IN  ev' = [NoEv EXCEPT !.op = "Home", !.ctx = ctx,
                              !.status = 200, !.requiredRole = requiredRole,
                              !.canAccess = canAccessSection(ctx, requiredRole),
                              !.isAdmin = isAdmin(ctx),
                              !.isEditor = isEditor(ctx)]
    /\ req' = [req EXCEPT ![r] = Idle]
    /\ UNCHANGED <<now, ticks, userRoles, userPass, sessions, resetTokens,
                   minted, failedLogins, loggedOut, consumed,
                   unchallengedFails, firstAccepted>>

Section(r, requiredRole) ==
    /\ Handling(r, "section")
    /\ LET ctx == req[r].ctx
           ok == canAccessSection(ctx, requiredRole)
       IN  ev' = [NoEv EXCEPT !.op = "Section", !.ctx = ctx,
                              !.status = IF ok THEN 200 ELSE 403,
                              !.requiredRole = requiredRole, !.canAccess = ok]
    /\ req' = [req EXCEPT ![r] = Idle]
    /\ UNCHANGED <<now, ticks, userRoles, userPass, sessions, resetTokens,
                   minted, failedLogins, loggedOut, consumed,
                   unchallengedFails, firstAccepted>>

\* len(password) of the passwords the model submits.
PwLen(password) ==
    CASE password = "" -> 0
      [] password = "short" -> 5
      [] OTHER -> 9

AdminUpdateUser(r, id, password, roleNames) ==
    /\ Handling(r, "admin_update_user")
    /\ LET e == [NoEv EXCEPT !.op = "AdminUpdateUser",
                             !.ctx = req[r].ctx, !.uid = id]
       IN  IF password # "" /\ PwLen(password) < 8
           THEN /\ ev' = [e EXCEPT !.status = 400]
                /\ UNCHANGED <<userPass, resetTokens, userRoles>>
           ELSE IF GetUserByID(id) = {}
           THEN /\ ev' = [e EXCEPT !.status = 500]
                /\ UNCHANGED <<userPass, resetTokens, userRoles>>
           ELSE /\ userPass' = IF password # ""
                               THEN UpdateUserPassword(id, Hash(password))
                               ELSE userPass
                /\ resetTokens' = IF password # ""
                                  THEN DeletePasswordResetTokensForUser(id)
                                  ELSE resetTokens
                /\ userRoles' = SetUserRoles(id, roleNames)
                /\ ev' = [Redirect(e, "/admin/users") EXCEPT !.msg = password]
    /\ req' = [req EXCEPT ![r] = Idle]
    /\ UNCHANGED <<now, ticks, sessions, minted, failedLogins, loggedOut, consumed,
                   unchallengedFails, firstAccepted>>

\* AdminSendResetPassword up to the user lookup.  `fail`: the store call of
\* the step returns an error (here and in the steps below).
AdminSendResetPassword(r, id, fail) ==
    /\ Handling(r, "admin_send_reset")
    /\ LET e == [NoEv EXCEPT !.op = "AdminSendResetPassword",
                             !.ctx = req[r].ctx, !.uid = id]
       IN  IF fail \/ GetUserByID(id) = {}
           THEN /\ ev' = [e EXCEPT !.status = 404]
                /\ req' = [req EXCEPT ![r] = Idle]
           ELSE /\ ev' = e
                /\ req' = [req EXCEPT ![r] =
                             [@ EXCEPT !.pc = "reset_delete", !.id = id]]
    /\ UNCHANGED <<now, ticks, userRoles, userPass, sessions, resetTokens,
                   minted, failedLogins, loggedOut, consumed,
                   unchallengedFails, firstAccepted>>

\* It deletes the user's tokens; an error is logged and the handler goes on.
AdminSendResetDelete(r, fail) ==
    /\ req[r].pc = "reset_delete"
    /\ resetTokens' = IF fail THEN resetTokens
                      ELSE DeletePasswordResetTokensForUser(req[r].id)
    /\ ev' = [NoEv EXCEPT !.op = "AdminSendResetDelete", !.uid = req[r].id,
                          !.msg = IF fail THEN "error" ELSE ""]
    /\ req' = [req EXCEPT ![r] = [@ EXCEPT !.pc = "reset_create"]]
    /\ UNCHANGED <<now, ticks, userRoles, userPass, sessions, minted,
                   failedLogins, loggedOut, consumed,
                   unchallengedFails, firstAccepted>>

\* It draws a token, stores it with 48 hours to live and mails the link.
AdminSendResetCreate(r, fail, mailSent) ==
    /\ req[r].pc = "reset_create"
    /\ minted < MaxResetTokens
    /\ minted' = minted + 1
    /\ LET token == generateToken
           e == [NoEv EXCEPT !.op = "AdminSendResetCreate",
                             !.uid = req[r].id]
       IN  IF fail
           THEN /\ resetTokens' = resetTokens
                /\ ev' = [e EXCEPT !.status = 500]
           ELSE /\ resetTokens' = CreatePasswordResetToken(
                                     req[r].id, token, now + resetTokenTTL)
                /\ ev' = IF mailSent
                         THEN [Redirect(e, "/admin/users/edit?reset_sent=1")
                                 EXCEPT !.setCookie = token]
                         ELSE [e EXCEPT !.status = 500, !.setCookie = token]
    /\ req' = [req EXCEPT ![r] = Idle]
    /\ UNCHANGED <<now, ticks, userRoles, userPass, sessions, failedLogins,
                   loggedOut, consumed,
                   unchallengedFails, firstAccepted>>

ResetPasswordPasswordFirst(r, token, password, confirm, fail) ==
    /\ Handling(r, "reset_password")
    /\ LET e == [NoEv EXCEPT !.op = "ResetPassword",
                             !.cookie = Cookie(token)]
           rt == IF fail THEN {} ELSE GetPasswordResetToken(token)
           stop(status, msg) ==
               /\ ev' = [e EXCEPT !.status = status, !.msg = msg]
               /\ req' = [req EXCEPT ![r] = Idle]
       IN  IF token = 0 THEN stop(404, "")
           ELSE IF password = "" \/ PwLen(password) < 8
           THEN stop(400, "too short")
           ELSE IF password # confirm THEN stop(400, "do not match")
           ELSE IF rt = {} THEN stop(400, "expired or invalid")
           ELSE /\ ev' = [e EXCEPT !.uid = (CHOOSE t \in rt : TRUE).user_id]
                /\ req' = [req EXCEPT ![r] =
                             [@ EXCEPT !.pc = "reset_update",
                                       !.id = (CHOOSE t \in rt : TRUE).user_id,
                                       !.token = token,
                                       !.password = password]]
    /\ UNCHANGED <<now, ticks, userRoles, userPass, sessions, resetTokens,
                   minted, failedLogins, loggedOut, consumed,
                   unchallengedFails, firstAccepted>>

\* ResetPassword up to the hashing of the new password: the token lookup and
\* the checks of the form.
ResetPassword(r, token, password, confirm, fail) ==
    /\ Handling(r, "reset_password")
    /\ LET e == [NoEv EXCEPT !.op = "ResetPassword",
                             !.cookie = Cookie(token)]
           rt == IF fail THEN {} ELSE GetPasswordResetToken(token)
           stop(status, msg) ==
               /\ ev' = [e EXCEPT !.status = status, !.msg = msg]
               /\ req' = [req EXCEPT ![r] = Idle]
       IN  IF token = 0 THEN stop(404, "")
           ELSE IF rt = {} THEN stop(400, "expired or invalid")
           ELSE IF password = "" \/ PwLen(password) < 8
           THEN stop(400, "too short")
           ELSE IF password # confirm THEN stop(400, "do not match")
           ELSE /\ ev' = [e EXCEPT !.uid = (CHOOSE t \in rt : TRUE).user_id]
                /\ req' = [req EXCEPT ![r] =
                             [@ EXCEPT !.pc = "reset_update",
                                       !.id = (CHOOSE t \in rt : TRUE).user_id,
                                       !.token = token,
                                       !.password = password]]
    /\ UNCHANGED <<now, ticks, userRoles, userPass, sessions, resetTokens,
                   minted, failedLogins, loggedOut, consumed,
                   unchallengedFails, firstAccepted>>

\* It stores the hash.  ev.tokenClass: what the request's token is at this
\* moment (used: it has changed a password before).
ResetPasswordUpdate(r, fail) ==
    /\ req[r].pc = "reset_update"
    /\ LET token == req[r].token
           e == [NoEv EXCEPT
                   !.op = "ResetPasswordUpdate", !.uid = req[r].id,
                   !.cookie = Cookie(token),
                   !.tokenClass =
                      IF token \in consumed THEN "used"
                      ELSE IF GetPasswordResetToken(token) # {} THEN "valid"
                      ELSE "gone"]
       IN  IF fail
           THEN /\ ev' = [e EXCEPT !.status = 500]
                /\ req' = [req EXCEPT ![r] = Idle]
                /\ UNCHANGED <<userPass, consumed,
                   unchallengedFails, firstAccepted>>
           ELSE /\ userPass' = UpdateUserPassword(req[r].id,
                                                  Hash(req[r].password))
                /\ consumed' = consumed \cup {token}
                /\ ev' = [e EXCEPT !.msg = "changed"]
                /\ req' = [req EXCEPT ![r] = [@ EXCEPT !.pc = "reset_done"]]
    /\ UNCHANGED <<now, ticks, userRoles, sessions, resetTokens, minted,
                   failedLogins, loggedOut, unchallengedFails, firstAccepted>>

\* It deletes all reset tokens of the user (an error is logged only) and
\* renders the success page.
ResetPasswordDelete(r, fail) ==
    /\ req[r].pc = "reset_done"
    /\ resetTokens' = IF fail THEN resetTokens
                      ELSE DeletePasswordResetTokensForUser(req[r].id)
    /\ ev' = [NoEv EXCEPT !.op = "ResetPassword", !.status = 200,
                          !.uid = req[r].id, !.msg = "success",
                          !.cookie = Cookie(req[r].token)]
    /\ req' = [req EXCEPT ![r] = Idle]
    /\ UNCHANGED <<now, ticks, userRoles, userPass, sessions, minted,
                   failedLogins, loggedOut, consumed,
                   unchallengedFails, firstAccepted>>

\* ---- Login ----------------------------------------------------------------
\* Login up to the credential check: the required fields, then getFailCount
\* and, at the threshold, the challenge.  `filled`: email and password are
\* both non-empty (their values are first read by the credential check).
LoginBegin(r, ip, filled, cAnswer, cToken) ==
    /\ req[r].pc = "login"
    /\ LET got == getFailCount(ip)
           accepted == cAnswer # <<>> /\ cToken # <<>>
                       /\ verifyChallenge(cAnswer, cToken)
           e == [NoEv EXCEPT !.op = "LoginBegin", !.ip = ip,
                             !.cAnswer = cAnswer, !.cToken = cToken]
       IN  IF ~filled
           THEN /\ req' = [req EXCEPT ![r] =
                             [@ EXCEPT !.pc = "login_render", !.ip = ip,
                                       !.msg = "Email and password are required"]]
                /\ failedLogins' = failedLogins
                /\ ev' = e
                /\ firstAccepted' = firstAccepted
           ELSE /\ failedLogins' = got.map
                /\ firstAccepted' =
                      IF /\ ip = WatchedIP /\ ~firstAccepted.present
                         /\ got.count >= challengeThreshold /\ accepted
                      THEN [present |-> TRUE, answer |-> cAnswer,
                            token |-> cToken]
                      ELSE firstAccepted
                /\ ev' = [e EXCEPT !.count = got.count, !.chal = accepted]
                /\ req' = [req EXCEPT ![r] =
                      IF got.count >= challengeThreshold /\ ~accepted
                      THEN [@ EXCEPT !.pc = "login_recordfail", !.ip = ip,
                              !.msg = "Incorrect answer to the security challenge"]
                      ELSE [@ EXCEPT !.pc = "login_cred", !.ip = ip,
                              !.chal = accepted]]
    /\ UNCHANGED <<now, ticks, userRoles, userPass, sessions, resetTokens,
                   minted, loggedOut, consumed,
                   unchallengedFails>>

\* The credential check (GetUserByEmail, then bcrypt) and, when it succeeds,
\* clearFails and the new session.  ev.count is the count of the address at
\* the moment of the check; ev.chal says whether the request carries a
\* challenge answer and token that verifyChallenge accepts.
LoginCredentials(r, email, password, fail) ==
    /\ req[r].pc = "login_cred"
    /\ LET ip == req[r].ip
           user == IF fail = "GetUserByEmail" THEN {}
                   ELSE GetUserByEmail(email)
           ok == /\ user # {}
                 /\ CompareHashAndPassword(userPass[CHOOSE u \in user : TRUE],
                                           password)
           token == generateToken
           e == [NoEv EXCEPT !.op = "LoginCredentials", !.ip = ip,
                             !.count = getFailCount(ip).count,
                             !.chal = req[r].chal,
                             !.fail = IF fail = "CreateSession" /\ ~ok
                                      THEN "" ELSE fail]
       IN  IF ~ok
           THEN /\ req' = [req EXCEPT ![r] =
                             [@ EXCEPT !.pc = "login_recordfail",
                                       !.msg = "Invalid email or password",
                                       !.fail = e.fail]]
                /\ ev' = e
                /\ unchallengedFails' =
                      IF ip = WatchedIP /\ fail = "" /\ ~req[r].chal
                         /\ unchallengedFails <= challengeThreshold
                      THEN unchallengedFails + 1
                      ELSE unchallengedFails
                /\ UNCHANGED <<failedLogins, sessions, minted>>
           ELSE /\ minted < MaxTokens
                /\ unchallengedFails' = unchallengedFails
                /\ failedLogins' = clearFails(ip)
                /\ minted' = minted + 1
                /\ req' = [req EXCEPT ![r] = Idle]
                /\ IF fail = "CreateSession" \/ SessionRows(token) # {}
                   THEN \* an error, or sessions.token is UNIQUE: no row
                        /\ sessions' = sessions
                        /\ ev' = [e EXCEPT !.status = 500]
                   ELSE /\ sessions' = CreateSession(CHOOSE u \in user : TRUE,
                                                     token, now + sessionDuration)
                        /\ ev' = [Redirect(e, "/") EXCEPT
                                    !.setCookie = token,
                                    !.uid = CHOOSE u \in user : TRUE]
    /\ UNCHANGED <<now, ticks, userRoles, userPass, resetTokens, loggedOut,
                   consumed,
                   firstAccepted>>

LoginRecordFail(r) ==
    /\ req[r].pc = "login_recordfail"
    /\ LET rec == recordFail(req[r].ip)
       IN  /\ rec.count <= MaxCount
           /\ failedLogins' = rec.map
           /\ ev' = [NoEv EXCEPT !.op = "recordFail",
                                 !.ip = req[r].ip, !.count = rec.count,
                                 !.prev = failedLogins[req[r].ip]]
    /\ req' = [req EXCEPT ![r] = [@ EXCEPT !.pc = "login_render"]]
    /\ UNCHANGED <<now, ticks, userRoles, userPass, sessions, resetTokens,
                   minted, loggedOut, consumed,
                   unchallengedFails, firstAccepted>>

\* `draw`: what generateChallenge draws, when it is called.
renderLoginError(r, draw) ==
    /\ req[r].pc = "login_render"
    /\ LET got == getFailCount(req[r].ip)
           show == got.count >= challengeThreshold
       IN  /\ failedLogins' = got.map
           /\ ev' = [NoEv EXCEPT !.op = "renderLoginError",
                                 !.ip = req[r].ip, !.count = got.count,
                                 !.status = 401, !.msg = req[r].msg,
                                 !.fail = req[r].fail,
                                 !.showChallenge = show,
                                 !.challenge =
                                    IF show
                                    THEN generateChallenge(draw[1], draw[2],
                                            draw[3], draw[4], draw[5], draw[6])
                                    ELSE NoChallenge]
    /\ req' = [req EXCEPT ![r] = Idle]
    /\ UNCHANGED <<now, ticks, userRoles, userPass, sessions, resetTokens,
                   minted, loggedOut, consumed,
                   unchallengedFails, firstAccepted>>

\* ---- inputs ---------------------------------------------------------------
CookieInputs == {NoCookie} \cup {Cookie(t) : t \in 0..MaxTokens}
SectionRoles == {"", "admin", "ops"}
PreviewForms == {<<>>, <<"ops">>, <<"admin", "ops">>}
RoleForms == {<<>>, <<"editor">>, <<"admin", "editor">>}
\* The challenge fields a login form submits: <<answer, token>>.
Challenges ==
    {<<<<>>, <<>>>>,
     <<<<"1", "7">>, signAnswer(17)>>,
     <<<<"1", "8">>, signAnswer(17)>>,
     <<<<"1", "7">>, <<"forged">>>>}
\* Draws of generateChallenge: <<variant, a, b, c, useWord, wordC>>.
ChallengeDraws == {<<0, 2, 7, 3, TRUE, FALSE>>, <<2, 12, 15, 0, TRUE, TRUE>>}

\* The slot of the specifications that take one request at a time.
One == {1}

\* ---- preview mode and the role gates ---------------------------------------
\* Requests of logged-in users, one at a time, while the clock stands still.
\* Logins carry the right credentials from one address (SpecThrottle explores
\* the failing ones); an admin changes the roles of u2.
Next ==
    \/ \E r \in One,
          route \in {"login", "home", "section", "preview", "preview_stop",
                     "admin_update_user"},
          c \in CookieInputs : RequireAuth(r, route, c, "")
    \/ \E r \in One : Gate(r, FALSE)
    \/ \E r \in One, u \in {"", "u2"}, f \in PreviewForms :
          StartPreview(r, u, f)
    \/ \E r \in One : StopPreview(r)
    \/ \E r \in One, role \in SectionRoles : Home(r, role)
    \/ \E r \in One, role \in SectionRoles : Section(r, role)
    \/ \E r \in One, f \in RoleForms : AdminUpdateUser(r, "u2", "", f)
    \/ \E r \in One : LoginBegin(r, "10.0.0.5", TRUE, <<>>, <<>>)
    \/ \E r \in One, u \in Users : LoginCredentials(r, u, "changeme1", "")

Spec == Init /\ [][Next]_vars

\* ---- the life of a session ---------------------------------------------------
\* Login, Logout, expiry and the sweep, and preview mode, as the clock runs;
\* one request at a time, interleaved with the clock and the sweep.
NextSession ==
    \/ \E d \in {1, sessionDuration} : Tick(d)
    \/ Sweep(FALSE)
    \/ \E r \in One,
          route \in {"login", "home", "logout", "preview", "preview_stop"},
          c \in CookieInputs : RequireAuth(r, route, c, "")
    \/ \E r \in One : Gate(r, FALSE)
    \/ \E r \in One : StartPreview(r, "", <<"ops">>)
    \/ \E r \in One : StopPreview(r)
    \/ \E r \in One : Logout(r)
    \/ \E r \in One : Home(r, "ops")
    \/ \E r \in One : LoginBegin(r, "10.0.0.5", TRUE, <<>>, <<>>)
    \/ \E r \in One, u \in Users : LoginCredentials(r, u, "changeme1", "")

SpecSession == Init /\ [][NextSession]_vars

\* ---- a password changes ------------------------------------------------------
\* The admin u1 sets the password of u2 or sends u2 a reset link, the link is
\* submitted, and both log in with the old and the new password.
NextPassword ==
    \/ \E r \in One,
          route \in {"login", "home", "admin_update_user", "admin_send_reset",
                     "reset_password"},
          c \in CookieInputs : RequireAuth(r, route, c, "")
    \/ \E r \in One : Gate(r, FALSE)
    \/ \E r \in One : Home(r, "ops")
    \/ \E r \in One, p \in {"short", "changeme2"} :
          AdminUpdateUser(r, "u2", p, <<"editor">>)
    \/ \E r \in One : AdminSendResetPassword(r, "u2", FALSE)
    \/ \E r \in One : AdminSendResetDelete(r, FALSE)
    \/ \E r \in One, m \in BOOLEAN : AdminSendResetCreate(r, FALSE, m)
    \/ \E r \in One, t \in 0..MaxTokens, p \in {"short", "changeme2"},
          c \in Passwords : ResetPassword(r, t, p, c, FALSE)
    \/ \E r \in One : ResetPasswordUpdate(r, FALSE)
    \/ \E r \in One : ResetPasswordDelete(r, FALSE)
    \/ \E r \in One : LoginBegin(r, "10.0.0.5", TRUE, <<>>, <<>>)
    \/ \E r \in One, u \in Users, p \in Passwords : LoginCredentials(r, u, p, "")
    \/ \E r \in One : LoginRecordFail(r)
    \/ \E r \in One, g \in ChallengeDraws : renderLoginError(r, g)

SpecPassword == Init /\ [][NextPassword]_vars

\* ---- the login throttle -----------------------------------------------------
\* Concurrent logins from one address, failing and succeeding, with and
\* without a challenge, while the failure window passes.
NextThrottle ==
    \/ \E d \in {FailWindow, FailWindow + 1} : Tick(d)
    \/ \E r \in Reqs : RequireAuth(r, "login", NoCookie, "")
    \/ \E r \in Reqs, filled \in BOOLEAN, c \in Challenges :
          LoginBegin(r, "10.0.0.5", filled, c[1], c[2])
    \/ \E r \in Reqs, m \in {"u1", "nobody"}, p \in Passwords :
          LoginCredentials(r, m, p, "")
    \/ \E r \in Reqs : LoginRecordFail(r)
    \/ \E r \in Reqs, g \in ChallengeDraws : renderLoginError(r, g)

SpecThrottle == Init /\ [][NextThrottle]_vars

\* ---- the failure records ---------------------------------------------------
\* Logins from two addresses, one request at a time, while the failure window
\* passes (between requests, or while one is being served).
NextFailures ==
    \/ \E d \in {FailWindow, FailWindow + 1} : Tick(d)
    \/ \E r \in One : RequireAuth(r, "login", NoCookie, "")
    \/ \E r \in One, ip \in IPs, filled \in BOOLEAN, c \in Challenges :
          LoginBegin(r, ip, filled, c[1], c[2])
    \/ \E r \in One, m \in {"u1", "nobody"}, p \in Passwords :
          LoginCredentials(r, m, p, "")
    \/ \E r \in One : LoginRecordFail(r)
    \/ \E r \in One, g \in ChallengeDraws : renderLoginError(r, g)

SpecFailures == Init /\ [][NextFailures]_vars

\* ---- password-reset tokens ---------------------------------------------------
\* The admin u1 issues reset links for u2 and the links are used, by requests
\* that run side by side, while single store calls may fail.
NextReset ==
    \/ \E r \in Reqs, route \in {"login", "admin_send_reset", "reset_password"},
          c \in {NoCookie, Cookie(1)} : RequireAuth(r, route, c, "")
    \/ \E r \in Reqs : Gate(r, FALSE)
    \/ \E r \in Reqs : LoginBegin(r, "10.0.0.5", TRUE, <<>>, <<>>)
    \/ \E r \in Reqs : LoginCredentials(r, "u1", "changeme1", "")
    \/ \E r \in Reqs : AdminSendResetPassword(r, "u2", FALSE)
    \/ \E r \in Reqs, fail \in BOOLEAN : AdminSendResetDelete(r, fail)
    \/ \E r \in Reqs : AdminSendResetCreate(r, FALSE, TRUE)
    \/ \E r \in Reqs, t \in 1..MaxResetTokens :
          ResetPassword(r, t, "changeme2", "changeme2", FALSE)
    \/ \E r \in Reqs : ResetPasswordUpdate(r, FALSE)
    \/ \E r \in Reqs, fail \in BOOLEAN : ResetPasswordDelete(r, fail)

SpecReset == Init /\ [][NextReset]_vars

\* The same, one request at a time.
NextResetSeq ==
    \/ \E r \in One, route \in {"login", "admin_send_reset", "reset_password"},
          c \in {NoCookie, Cookie(1)} : RequireAuth(r, route, c, "")
    \/ \E r \in One : Gate(r, FALSE)
    \/ \E r \in One : LoginBegin(r, "10.0.0.5", TRUE, <<>>, <<>>)
    \/ \E r \in One : LoginCredentials(r, "u1", "changeme1", "")
    \/ \E r \in One, id \in Users : AdminSendResetPassword(r, id, FALSE)
    \/ \E r \in One, fail \in BOOLEAN : AdminSendResetDelete(r, fail)
    \/ \E r \in One, m \in BOOLEAN : AdminSendResetCreate(r, FALSE, m)
    \/ \E r \in One, t \in 1..MaxResetTokens, p \in Passwords :
          ResetPassword(r, t, p, p, FALSE)
    \/ \E r \in One : ResetPasswordUpdate(r, FALSE)
    \/ \E r \in One, fail \in BOOLEAN : ResetPasswordDelete(r, fail)

SpecResetSeq == Init /\ [][NextResetSeq]_vars

\* ---- store failures ---------------------------------------------------------
\* Requests, one at a time, in which a store call may return an error.
NextStore ==
    \/ \E r \in One, route \in {"login", "home", "preview", "admin_update_user"},
          c \in CookieInputs,
          fail \in {"", "GetSessionByToken", "GetUserByID"} :
          RequireAuth(r, route, c, fail)
    \/ \E r \in One, fail \in BOOLEAN : Gate(r, fail)
    \/ \E r \in One : Home(r, "ops")
    \/ \E r \in One, f \in PreviewForms : StartPreview(r, "", f)
    \/ \E r \in One : AdminUpdateUser(r, "u2", "", <<"editor">>)
    \/ \E r \in One : LoginBegin(r, "10.0.0.5", TRUE, <<>>, <<>>)
    \/ \E r \in One, m \in {"u1", "u2", "nobody"}, p \in Passwords,
          fail \in {"", "GetUserByEmail", "CreateSession"} :
          LoginCredentials(r, m, p, fail)
    \/ \E r \in One : LoginRecordFail(r)
    \/ \E r \in One, g \in ChallengeDraws : renderLoginError(r, g)

SpecStore == Init /\ [][NextStore]_vars

\* ==== the claims ============================================================

\* C1: a request to which RequireAuth attached a preview-role set (the empty
\* set, stored as the empty string, included) never gets past RequireEditor
\* or RequireAdmin to the wrapped handler, and isAdmin and isEditor are false
\* for it, whatever roles the session's user holds.
C1_PreviewNeverPassesGates ==
    /\ (ev.op \in {"RequireEditor", "RequireAdmin"} /\ ev.ctx.previewSet)
          => ~ev.next
    /\ (ev.op = "Home" /\ ev.ctx.previewSet) => (~ev.isAdmin /\ ~ev.isEditor)
    /\ \A r \in Reqs :
          (req[r].pc = "handler" /\ req[r].route \in EditorRoutes \cup AdminRoutes)
             => ~req[r].ctx.previewSet

\* An admin whose session previews the empty role set was stopped by
\* RequireAdmin.
C1_Witness ==
    /\ ev.op = "RequireAdmin"
    /\ ev.ctx.previewSet /\ ev.ctx.previewRoles = <<>>
    /\ "admin" \in userRoles[ev.ctx.user]
    /\ ~ev.next

\* C2: preview mode never grants more: whenever a session has a preview set
\* attached and canAccessSection is true of a section under it, it is also
\* true of that section for the same user with no preview set attached.
C2_PreviewGrantsNothing ==
    \A s \in sessions : \A role \in SectionRoles :
        (s.previewSet /\ canAccessSection(SessionCtx(s), role))
           => canAccessSection(
                 [SessionCtx(s) EXCEPT !.previewSet = FALSE, !.previewRoles = <<>>],
                 role)

\* C3: canAccessSection(requiredRole) is true iff requiredRole is empty, or a
\* preview set is attached and contains requiredRole, or none is attached and
\* the user holds admin or requiredRole; without a user every restricted
\* section is denied.
C3_CanAccessSection ==
    /\ ev.op \in {"Home", "Section"} =>
          ev.canAccess =
             (\/ ev.requiredRole = ""
              \/ /\ ev.ctx.previewSet
                 /\ ev.requiredRole \in Range(PreviewRolesFromContext(ev.ctx).list)
              \/ /\ ~ev.ctx.previewSet
                 /\ userRoles[ev.ctx.user] \cap {"admin", ev.requiredRole} # {})
    /\ \A role \in SectionRoles \ {""} : ~canAccessSection(EmptyCtx, role)

\* A previewing admin was denied a restricted section that is not in the
\* preview set.
C3_Witness ==
    /\ ev.op = "Section" /\ ev.status = 403
    /\ ev.ctx.previewSet
    /\ "admin" \in userRoles[ev.ctx.user]
    /\ ev.requiredRole # ""

\* C4: StopPreview is not behind a gate; when it has run the session's row has
\* no preview set; RequireAuth hands on the row's preview state as it is
\* stored; and a request without a preview set passes RequireAdmin iff its
\* user is admin, RequireEditor iff its user is admin or editor.
C4_StopPreviewRestores ==
    /\ \A r \in Reqs : req[r].route = "preview_stop" => req[r].pc = "handler"
    /\ ev.op = "StopPreview" =>
          \A s \in sessions : s.token = ev.ctx.sessionToken => ~s.previewSet
    /\ (ev.op = "RequireAuth" /\ ev.next /\ ev.route \notin PublicRoutes) =>
          \A s \in sessions : s.token = ev.cookie.value =>
             (ev.ctx.previewSet = s.previewSet /\ ev.ctx.user = s.user_id)
    /\ (ev.op = "RequireAdmin" /\ ~ev.ctx.previewSet) =>
          (ev.next <=> "admin" \in userRoles[ev.ctx.user])
    /\ (ev.op = "RequireEditor" /\ ~ev.ctx.previewSet) =>
          (ev.next <=> userRoles[ev.ctx.user] \cap {"admin", "editor"} # {})

\* StopPreview ran for an admin's session that was in preview mode, and the
\* row has no preview set any more.
C4_Witness ==
    /\ ev.op = "StopPreview"
    /\ ev.ctx.previewSet
    /\ "admin" \in userRoles[ev.ctx.user]
    /\ \E s \in sessions : s.token = ev.ctx.sessionToken /\ ~s.previewSet

\* C5: off /login and /reset-password RequireAuth calls the handler only for a
\* cookie whose token has a row with now < expires_at, expires_at being 24
\* hours after the Login that made the row: a stored session is accepted
\* before T0+24h and rejected from then on, and a rejection redirects to
\* /login.
C5_RequireAuthExpiry ==
    /\ \A s \in sessions : s.expires_at = s.created_at + 24 * 60
    /\ (ev.op = "RequireAuth" /\ ev.route \notin PublicRoutes) =>
          /\ ev.next =>
                /\ ev.cookie.present
                /\ \E s \in sessions :
                      s.token = ev.cookie.value /\ now < s.expires_at
          /\ ~ev.next => (ev.status = 303 /\ ev.location = "/login")
          /\ \A s \in sessions :
                (ev.cookie.present /\ s.token = ev.cookie.value) =>
                   (ev.next <=> now < s.created_at + 24 * 60)

\* A session was rejected exactly 24 hours after its Login.
C5_Witness ==
    /\ ev.op = "RequireAuth" /\ ~ev.next
    /\ \E s \in sessions :
          s.token = ev.cookie.value /\ now = s.created_at + 24 * 60

\* C6: RequireAuth answers a token that was never issued, one a Logout
\* deleted and one that is expired but not yet swept in the same way: 303 to
\* /login, the session cookie cleared, the handler not called.
C6_ExpiredLikeAbsent ==
    (/\ ev.op = "RequireAuth"
     /\ ev.route \notin PublicRoutes
     /\ ev.tokenClass \in {"never", "loggedOut", "expired"})
       => /\ ev.status = 303 /\ ev.location = "/login"
          /\ ev.clearCookie
          /\ ~ev.next
          /\ ev.setCookie = 0
          /\ ev.ctx = EmptyCtx

\* RequireAuth turned away a token whose row is expired and still stored.
C6_Witness ==
    /\ ev.op = "RequireAuth" /\ ev.tokenClass = "expired"
    /\ ev.clearCookie
    /\ \E s \in sessions : s.token = ev.cookie.value

\* C7: when ResetPassword or AdminUpdateUser (with a password) has changed the
\* password of a user, no session of that user made before is still accepted.
C7_PasswordChangeEndsSessions ==
    (\/ ev.op = "ResetPassword" /\ ev.msg = "success"
     \/ ev.op = "AdminUpdateUser" /\ ev.status = 303 /\ ev.msg # "")
       => \A s \in sessions : s.user_id = ev.uid => ~(now < s.expires_at)

\* C8: a drawn token that has no acceptable session (Logout deleted it, or it
\* is expired) gets none by any step; a successful Login stores one new row
\* whose token differs from every token drawn before and leaves all other rows
\* as they are.
C8_NoRevival ==
    [][/\ \A t \in 1..minted :
             (~\E s \in sessions : s.token = t /\ now < s.expires_at)
                => (~\E s \in sessions' : s.token = t /\ now' < s.expires_at)
       /\ LET old == {s.token : s \in sessions}
              new == {s.token : s \in sessions'}
          IN  new \ old # {} =>
                 \E t \in new \ old :
                    /\ t \notin 1..minted
                    /\ new = old \cup {t}
                    /\ sessions \subseteq sessions'
                    /\ ev'.op = "LoginCredentials" /\ ev'.setCookie = t
      ]_vars

\* After a Logout of one token a later Login has made another session.
C8_Witness ==
    \E t \in loggedOut : \E s \in sessions : s.token > t /\ now < s.expires_at

\* C9: once the failure count of an address is >= 3, the credential check
\* runs for a request from it only if the request carries a challenge answer
\* and token that verifyChallenge accepts.
C9_ChallengeBeforeCredentials ==
    (ev.op = "LoginCredentials" /\ ev.count >= 3) => ev.chal

\* C10: recordFail starts a record at count 1 when the address has none or its
\* last failure is more than 15 minutes old, otherwise adds one to the count;
\* it stamps the record with the time of the failure and returns the count.
C10_RecordFail ==
    ev.op = "recordFail" =>
       LET fresh == ~ev.prev.present \/ now - ev.prev.LastFail > 15
           count == IF fresh THEN 1 ELSE ev.prev.Count + 1
       IN  /\ failedLogins[ev.ip] =
                [present |-> TRUE, Count |-> count, LastFail |-> now]
           /\ ev.count = count

\* A failure 16 minutes after the previous one left the count at 1, though
\* it was 2 or more before.
C10_Witness ==
    /\ ev.op = "recordFail"
    /\ ev.prev.present /\ ev.prev.Count >= 2
    /\ now - ev.prev.LastFail = 16
    /\ failedLogins[ev.ip].Count = 1

\* C11: the error page of a failed login carries a challenge (a question and
\* a signed token) exactly when the failure count of the address, read after
\* the failure was recorded, is 3 or more: the page that follows the
\* recording of failure number n carries one iff n >= 3, and an address
\* whose record is absent or older than 15 minutes gets none.
C11_ChallengeAtThreshold ==
    [][ev'.op = "renderLoginError" =>
          LET rec == failedLogins'[ev'.ip]
              live == rec.present /\ now' - rec.LastFail <= 15
          IN  /\ ev'.showChallenge = (live /\ rec.Count >= 3)
              /\ ev'.showChallenge =>
                    /\ ev'.challenge.Question # <<>>
                    /\ \E n \in 0..99 : ev'.challenge.Token = signAnswer(n)
              /\ ~ev'.showChallenge => ev'.challenge = NoChallenge
              /\ (ev.op = "recordFail" /\ ev.ip = ev'.ip)
                    => ev'.showChallenge = (ev.count >= 3)
      ]_vars

\* The page after the third failure in a row carries a challenge.
C11_Witness ==
    /\ ev.op = "renderLoginError" /\ ev.showChallenge
    /\ ev.msg = "Invalid email or password"
    /\ failedLogins[ev.ip].Count = 3
    /\ ev.challenge.Question # <<>>

\* C12: after a successful Login from an address (right credentials, and an
\* accepted challenge when the count had reached 3) the failure count of that
\* address is 0, and the record of every other address is as it was.
C12_ClearFailures ==
    [][(ev'.op = "LoginCredentials" /\ ev'.status = 303) =>
          LET rec == failedLogins'[ev'.ip]
          IN  /\ ~rec.present \/ now' - rec.LastFail > 15
              /\ \A k \in IPs \ {ev'.ip} : failedLogins'[k] = failedLogins[k]
              /\ ev'.count >= 3 => ev'.chal
      ]_vars

\* A login with an accepted challenge succeeded from an address that had 3 or
\* more failures, while another address has a record.
C12_Witness ==
    /\ ev.op = "LoginCredentials" /\ ev.status = 303
    /\ ev.count >= 3 /\ ev.chal
    /\ \E k \in IPs \ {ev.ip} : failedLogins[k].present

\* ---- the challenge's answers -----------------------------------------------
\* Answers a form can carry, each with the integer it denotes for
\* strconv.Atoi after strings.TrimSpace (isInt FALSE: it denotes none).
AnswerForms ==
    {[text |-> <<"1", "7">>, isInt |-> TRUE, val |-> 17],
     [text |-> <<" ", "1", "7", "\n">>, isInt |-> TRUE, val |-> 17],
     [text |-> <<"+", "1", "7">>, isInt |-> TRUE, val |-> 17],
     [text |-> <<"0", "1", "7">>, isInt |-> TRUE, val |-> 17],
     [text |-> <<"1", "8">>, isInt |-> TRUE, val |-> 18],
     [text |-> <<"7", "1">>, isInt |-> TRUE, val |-> 71],
     [text |-> <<"-", "1", "7">>, isInt |-> TRUE, val |-> 0 - 17],
     [text |-> <<"x">>, isInt |-> FALSE, val |-> 0],
     [text |-> <<"1", "7", "x">>, isInt |-> FALSE, val |-> 0],
     [text |-> <<"1", " ", "7">>, isInt |-> FALSE, val |-> 0],
     [text |-> <<"1", "7", ".", "0">>, isInt |-> FALSE, val |-> 0],
     [text |-> <<"-">>, isInt |-> FALSE, val |-> 0],
     [text |-> <<" ">>, isInt |-> FALSE, val |-> 0]}

AnswerInts == (0 - MaxAnswer)..MaxAnswer

TokenForms ==
    {signAnswer(17), signAnswer(18), signAnswer(0 - 17), <<"forged">>}

\* Logins from one address, one at a time, that carry every answer form with
\* every token form.
NextChallenge ==
    \/ \E r \in One : RequireAuth(r, "login", NoCookie, "")
    \/ \E r \in One, f \in AnswerForms, tok \in TokenForms :
          LoginBegin(r, "10.0.0.5", TRUE, f.text, tok)
    \/ \E r \in One, m \in {"u1", "nobody"} :
          LoginCredentials(r, m, "changeme1", "")
    \/ \E r \in One : LoginRecordFail(r)
    \/ \E r \in One : renderLoginError(r, <<0, 2, 7, 3, TRUE, FALSE>>)

SpecChallenge == Init /\ [][NextChallenge]_vars

\* C13: for integers a and a', verifyChallenge of the decimal text of a' with
\* signAnswer(a) is true iff a' = a; an answer that does not parse as an
\* integer is rejected with every token; Login's challenge test accepts a
\* submitted answer and token iff the answer denotes an integer whose
\* signature is the token.
C13_VerifySign ==
    /\ \A a \in AnswerInts : \A b \in AnswerInts :
          verifyChallenge(Itoa(b), signAnswer(a)) = (b = a)
    /\ \A f \in AnswerForms : \A tok \in TokenForms \cup {<<>>} :
          verifyChallenge(f.text, tok) = (f.isInt /\ tok = signAnswer(f.val))
    /\ (ev.op = "LoginBegin" /\ ev.cToken # <<>>) =>
          \A f \in AnswerForms : f.text = ev.cAnswer =>
             ev.chal = (f.isInt /\ ev.cToken = signAnswer(f.val))

\* At the threshold, Login rejected the answer 18 given with the token of 17.
C13_Witness ==
    /\ ev.op = "LoginBegin" /\ ev.count >= 3
    /\ ev.cAnswer = <<"1", "8">> /\ ev.cToken = signAnswer(17)
    /\ ~ev.chal
    /\ req[1].pc = "login_recordfail"

\* C14: issuing a reset token for a user invalidates the tokens issued to that
\* user before: when AdminSendResetPassword has stored a new token, the user
\* has no other stored token, so a ResetPassword with an earlier one is
\* rejected and changes nothing.
C14_ReissueInvalidates ==
    (ev.op = "AdminSendResetCreate" /\ ev.setCookie # 0) =>
       \A t \in resetTokens : t.user_id = ev.uid => t.token = ev.setCookie

\* C15: in every reachable state each user has at most one stored and
\* unexpired reset token.
C15_OneValidResetToken ==
    \A u \in Users :
       Cardinality({t \in resetTokens : t.user_id = u /\ t.expires_at > now})
          <= 1

\* C16: a reset token is single-use: a password is changed by ResetPassword
\* only with a token that is stored and has changed no password before, and
\* when ResetPassword has succeeded no reset token of that user is stored.
C16_ResetTokenSingleUse ==
    /\ (ev.op = "ResetPasswordUpdate" /\ ev.msg = "changed")
          => ev.tokenClass = "valid"
    /\ (ev.op = "ResetPassword" /\ ev.msg = "success")
          => \A t \in resetTokens : t.user_id # ev.uid

\* C17: a Login rejected for an unknown email, for a wrong password or for a
\* failed challenge is answered alike: the message "Invalid email or
\* password" and one status code, after one more recorded failure.
C17_UniformLoginFailure ==
    (ev.op = "renderLoginError" /\ ev.msg # "Email and password are required")
       => (ev.msg = "Invalid email or password" /\ ev.status = 401)

\* C18: a Login with an empty email or an empty password is answered with
\* status 400 and the login form with a message.
C18_EmptyFields400 ==
    (ev.op = "renderLoginError" /\ ev.msg = "Email and password are required")
       => ev.status = 400

\* C19: a request with a valid session that RequireEditor or RequireAdmin
\* turns away (the user lacks the role, or the session is in preview mode)
\* gets the 403 page, and the wrapped handler is not called.
C19_GateDenies403 ==
    /\ (ev.op \in {"RequireEditor", "RequireAdmin"} /\ ~ev.next)
          => ev.status = 403
    /\ \A r \in Reqs :
          (req[r].pc = "handler" /\ req[r].route \in EditorRoutes)
             => (/\ ~req[r].ctx.previewSet
                 /\ userRoles[req[r].ctx.user] \cap {"admin", "editor"} # {})

\* C20: a response to a request in which a store call of Login, RequireAuth
\* or a role gate returned an error is the 500 page, and the request is not
\* handed on.
C20_StoreFailure500 ==
    (ev.fail # "" /\ ev.status # 0) => (ev.status = 500 /\ ~ev.next)

\* ---- concurrent failed logins ----------------------------------------------
\* Logins from one address served concurrently, each split at its calls of
\* getFailCount, recordFail and clearFails, which the mutex makes atomic.
NextBurst ==
    \/ Tick(FailWindow + 1)
    \/ \E r \in Reqs : RequireAuth(r, "login", NoCookie, "")
    \/ \E r \in Reqs : LoginBegin(r, "10.0.0.5", TRUE, <<>>, <<>>)
    \/ \E r \in Reqs, p \in Passwords : LoginCredentials(r, "u1", p, "")
    \/ \E r \in Reqs : LoginRecordFail(r)
    \/ \E r \in Reqs : renderLoginError(r, <<0, 2, 7, 3, TRUE, FALSE>>)

SpecBurst == Init /\ [][NextBurst]_vars

\* C21: while the record of an address is inside the 15-minute window, every
\* recordFail raises its count by exactly one and returns the new count, and
\* nothing but a successful login (clearFails) changes it otherwise: of N
\* failed logins served concurrently, no increment is lost.
C21_NoLostIncrement ==
    [][\A k \in IPs :
          LET old == failedLogins[k]
              new == failedLogins'[k]
              live == old.present /\ ~Stale(old)
          IN  /\ (ev'.op = "recordFail" /\ ev'.ip = k)
                    => /\ new.Count = IF live THEN old.Count + 1 ELSE 1
                       /\ ev'.count = new.Count
              /\ (live /\ new # old)
                    => \/ ev'.op = "recordFail" /\ ev'.ip = k
                       \/ /\ ev'.op = "LoginCredentials" /\ ev'.status # 0
                          /\ new = NoRecord]_vars

\* Every slot holds a login that failed and was counted while the others were
\* in flight.
C21_Witness ==
    /\ \A r \in Reqs : /\ req[r].pc = "login_render"
                       /\ req[r].msg = "Invalid email or password"
    /\ failedLogins["10.0.0.5"].Count = MaxReqs
    /\ ev.op = "recordFail"

\* C22: getFailCount(k) returns 0 when k has no record or its last failure is
\* more than 15 minutes old and the stored count otherwise, and the call
\* leaves the failure map as it was.
C22_GetFailCountReadOnly ==
    [][(\/ ev'.op = "renderLoginError"
        \/ /\ ev'.op = "LoginBegin"
           /\ \E r \in Reqs : /\ req[r].pc = "login"
                              /\ req'[r].pc \in {"login_cred", "login_recordfail"})
          => LET fl == failedLogins[ev'.ip]
             IN  /\ ev'.count = IF ~fl.present \/ now - fl.LastFail > FailWindow
                                THEN 0 ELSE fl.Count
                 /\ failedLogins' = failedLogins]_vars

\* ---- the challenge questions -----------------------------------------------
\* Everything generateChallenge can draw: <<variant, a, b, c, useWord, wordC>>
\* with the operand ranges of each variant (c of the subtraction is drawn
\* from 1..a*b-1; the addition of two words draws no c and no coin).
AllDraws ==
    {<<0, a, b, c, w, v>> : a \in 2..9, b \in 2..9, c \in 1..9,
                            w \in BOOLEAN, v \in BOOLEAN}
    \cup UNION {{<<1, a, b, c, w, FALSE>> : c \in 1..(a * b - 1), w \in BOOLEAN}
                  : a \in 2..9, b \in 2..9}
    \cup {<<2, a, b, 0, TRUE, TRUE>> : a \in 2..20, b \in 2..20}
    \cup {<<3, a, b, c, w, v>> : a \in 1..15, b \in 2..9, c \in 2..9,
                                 w \in BOOLEAN, v \in BOOLEAN}

\* Failed logins from one address, one at a time, until the login form
\* carries a challenge.
NextGenerate ==
    \/ \E r \in One : RequireAuth(r, "login", NoCookie, "")
    \/ \E r \in One : LoginBegin(r, "10.0.0.5", TRUE, <<>>, <<>>)
    \/ \E r \in One : LoginCredentials(r, "u1", "changeme2", "")
    \/ \E r \in One : LoginRecordFail(r)
    \/ \E r \in One, g \in AllDraws : renderLoginError(r, g)

SpecGenerate == Init /\ [][NextGenerate]_vars

\* The value a reader computes from the question text: words and decimal
\* numbers as operands, the product before the sum or the difference.
FirstAt(q, ops) ==
    LET I == {i \in 1..Len(q) : q[i] \in ops}
    IN  IF I = {} THEN 0 ELSE CHOOSE i \in I : \A j \in I : i <= j

OperandValue(t) ==
    IF Len(t) = 1 /\ t[1] \in Range(numberWords)
    THEN CHOOSE n \in 1..Len(numberWords) : numberWords[n] = t[1]
    ELSE Atoi(t).n

ProductValue(t) ==
    LET m == FirstAt(t, {" x "})
    IN  IF m = 0 THEN OperandValue(t)
        ELSE OperandValue(SubSeq(t, 1, m - 1))
             * OperandValue(SubSeq(t, m + 1, Len(t)))

QuestionValue(q) ==
    LET p == FirstAt(q, {" + ", " - "})
    IN  IF p = 0 THEN ProductValue(q)
        ELSE IF q[p] = " + "
        THEN ProductValue(SubSeq(q, 1, p - 1))
             + ProductValue(SubSeq(q, p + 1, Len(q)))
        ELSE ProductValue(SubSeq(q, 1, p - 1))
             - ProductValue(SubSeq(q, p + 1, Len(q)))

\* C23: whatever generateChallenge draws, the value of the question (the
\* product first) is a positive integer, the token is signAnswer of that
\* value and verifies with it and not with its successor, every part of the
\* question is an operator, a decimal digit or one of the words for 1..20,
\* and the question "three x 4 + 2" has a token that verifies with 14 and
\* not with 15.
C23_ChallengeAnswer ==
    ev.showChallenge =>
       LET q == ev.challenge.Question
           t == ev.challenge.Token
           v == QuestionValue(q)
       IN  /\ v > 0
           /\ t = signAnswer(v)
           /\ verifyChallenge(Itoa(v), t)
           /\ ~verifyChallenge(Itoa(v + 1), t)
           /\ \A i \in 1..Len(q) :
                 q[i] \in {" x ", " + ", " - "} \cup Range(Digits)
                          \cup Range(numberWords)
           /\ (q = <<"three", " x ", "4", " + ", "2">>)
                 => /\ verifyChallenge(<<"1", "4">>, t)
                    /\ ~verifyChallenge(<<"1", "5">>, t)

C23_Witness ==
    /\ ev.op = "renderLoginError"
    /\ ev.showChallenge
    /\ ev.challenge.Question = <<"three", " x ", "4", " + ", "2">>
    /\ verifyChallenge(<<"1", "4">>, ev.challenge.Token)

\* C24: StartPreview and StopPreview change nothing but the preview_roles
\* field of the session row with the request's token: no row is added or
\* removed, every row keeps its token, user, expiry and creation time, every
\* other row is unchanged; and a row that is new starts with no preview set.
C24_PreviewFrame ==
    [][/\ ev'.op \in {"StartPreview", "StopPreview"}
          => /\ Cardinality(sessions') = Cardinality(sessions)
             /\ \A s \in sessions :
                   \E x \in sessions' :
                      /\ x.token = s.token
                      /\ x.user_id = s.user_id
                      /\ x.expires_at = s.expires_at
                      /\ x.created_at = s.created_at
                      /\ s.token # ev'.ctx.sessionToken => x = s
       /\ \A x \in sessions' :
             x.token \notin {s.token : s \in sessions}
                => ~x.previewSet /\ x.preview_roles = <<>>]_vars

\* A preview was attached to one of two sessions.
C24_Witness ==
    /\ ev.op = "StartPreview"
    /\ \E s \in sessions : /\ s.token = ev.ctx.sessionToken
                           /\ s.previewSet /\ s.preview_roles # <<>>
    /\ \E s \in sessions : s.token # ev.ctx.sessionToken /\ ~s.previewSet

\* ---- the cleanup goroutine -------------------------------------------------
\* Logins and page requests, one at a time, while time passes and the
\* cleanup runs; a run of the cleanup may fail.
NextSweep ==
    \/ \E d \in {1, sessionDuration} : Tick(d)
    \/ \E fail \in BOOLEAN : Sweep(fail)
    \/ \E r \in One, route \in {"login", "home"}, c \in CookieInputs :
          RequireAuth(r, route, c, "")
    \/ \E r \in One : Home(r, "")
    \/ \E r \in One : LoginBegin(r, "10.0.0.5", TRUE, <<>>, <<>>)
    \/ \E r \in One, u \in Users : LoginCredentials(r, u, "changeme1", "")

SpecSweep == Init /\ [][NextSweep]_vars

\* C25: a run of the cleanup deletes exactly the session rows with
\* expires_at <= now, so GetSessionByToken returns after it what it returned
\* before it for every stored token; a run that fails changes nothing, and
\* after it the cleanup can run again.
C25_SweepSafe ==
    [][/\ ev'.op = "Sweep"
          => /\ sessions' = IF ev'.fail # "" THEN sessions
                            ELSE {s \in sessions : ~(s.expires_at <= now)}
             /\ \A s \in sessions :
                   {x \in sessions' : x.token = s.token /\ x.expires_at > now'}
                      = GetSessionByToken(s.token)
             /\ UNCHANGED <<now, req, userPass, userRoles>>
       /\ (ev.op = "Sweep" /\ ev.fail # "") => ENABLED Sweep(FALSE)]_vars

\* The cleanup removed an expired session and kept a valid one.
C25_Witness ==
    /\ ev.op = "Sweep" /\ ev.fail = ""
    /\ \E s \in sessions : s.expires_at > now
    /\ \A s \in sessions : s.expires_at > now
    /\ Cardinality(sessions) < minted

\* ---- concurrent requests on one session ------------------------------------
\* Requests served concurrently, each split at RequireAuth, the role gate and
\* the handler: the preview of a session can start and stop, and the roles of
\* u2 can change, between the steps of another request.
NextPreviewRace ==
    \/ \E r \in Reqs,
          route \in {"login", "preview", "preview_stop", "admin_update_user"},
          c \in CookieInputs : RequireAuth(r, route, c, "")
    \/ \E r \in Reqs : Gate(r, FALSE)
    \/ \E r \in Reqs, f \in {<<"ops">>, <<"admin", "ops">>} :
          StartPreview(r, "", f)
    \/ \E r \in Reqs : StopPreview(r)
    \/ \E r \in Reqs, f \in {<<>>, <<"editor">>} :
          AdminUpdateUser(r, "u2", "", f)
    \/ \E r \in Reqs : LoginBegin(r, "10.0.0.5", TRUE, <<>>, <<>>)
    \/ \E r \in Reqs, u \in Users : LoginCredentials(r, u, "changeme1", "")

SpecPreviewRace == Init /\ [][NextPreviewRace]_vars

\* C26: when RequireEditor or RequireAdmin hands a request on to its handler,
\* the stored row of the request's session has no preview-role set.
C26_NoGatedHandlerInPreview ==
    (ev.op \in {"RequireEditor", "RequireAdmin"} /\ ev.next)
       => \A s \in sessions :
             s.token = sessionTokenFromContext(ev.ctx) => ~s.previewSet

\* C27: StartPreview attaches a preview-role set to a session only from a
\* request that is not in preview mode, whose user holds the editor or the
\* admin role at that moment, and only when the stored row has no preview
\* set attached (a set is replaced only after StopPreview cleared it).
C27_PreviewOnlyByEditors ==
    [][(/\ ev'.op = "StartPreview"
        /\ \E s \in sessions' : /\ s.token = sessionTokenFromContext(ev'.ctx)
                                 /\ s.previewSet)
          => /\ ~inPreviewMode(ev'.ctx)
             /\ userRoles[UserFromContext(ev'.ctx)] \cap {"admin", "editor"} # {}
             /\ \A s \in sessions :
                   s.token = sessionTokenFromContext(ev'.ctx) => ~s.previewSet]_vars

\* C28: from one address, no more than 3 credential checks fail inside a
\* 15-minute window without an accepted challenge (here: at one reading of
\* the clock), whatever accounts they name and whatever logins succeed
\* between them.
C28_ThreeUnchallengedFailures == unchallengedFails <= challengeThreshold

\* ---- the history of one address ---------------------------------------------
\* Logins from the watched address and from another one, one request at a
\* time, with right and wrong passwords and every challenge form, while the
\* failure window passes.
NextWatched ==
    \/ Tick(FailWindow + 1)
    \/ \E r \in One : RequireAuth(r, "login", NoCookie, "")
    \/ \E r \in One, ip \in {WatchedIP, "10.0.0.5"}, c \in Challenges :
          LoginBegin(r, ip, TRUE, c[1], c[2])
    \/ \E r \in One, p \in Passwords : LoginCredentials(r, "u1", p, "")
    \/ \E r \in One : LoginRecordFail(r)
    \/ \E r \in One : renderLoginError(r, <<0, 2, 7, 3, TRUE, FALSE>>)

SpecWatched == Init /\ [][NextWatched]_vars

\* C29: an answer and token that Login accepted once are accepted by every
\* later Login that submits them, from whatever address and however often:
\* the request goes on to the credential check.
C29_ChallengeReplay ==
    [][(/\ ev'.op = "LoginBegin"
        /\ firstAccepted.present
        /\ ev'.cAnswer = firstAccepted.answer
        /\ ev'.cToken = firstAccepted.token)
          => \A r \in Reqs :
                (req[r].pc = "login" /\ req'[r].pc \notin {"login", "login_render"})
                   => /\ ev'.chal
                      /\ req'[r].pc = "login_cred"
                      /\ req'[r].chal]_vars

\* At the threshold, Login accepted from another address the answer and
\* token it had accepted before from the watched address; a login has
\* succeeded in between or before.
C29_Witness ==
    /\ ev.op = "LoginBegin" /\ ev.chal /\ ev.count >= challengeThreshold
    /\ ev.ip # WatchedIP
    /\ firstAccepted.present
    /\ firstAccepted.answer = ev.cAnswer
    /\ firstAccepted.token = ev.cToken
    /\ \E r \in Reqs : req[r].pc = "login_cred" /\ req[r].chal
    /\ minted >= 1

\* ---- rejected password resets ----------------------------------------------
\* An admin issues reset tokens for u2 and reset forms are submitted with
\* every token, short, empty and good passwords and matching or differing
\* confirmations, one request at a time, while the tokens' lifetime passes.
NextResetReject ==
    \/ \E d \in {resetTokenTTL - 1, resetTokenTTL} : Tick(d)
    \/ \E r \in One, route \in {"login", "admin_send_reset", "reset_password"},
          c \in {NoCookie, Cookie(1)} : RequireAuth(r, route, c, "")
    \/ \E r \in One : Gate(r, FALSE)
    \/ \E r \in One : LoginBegin(r, "10.0.0.5", TRUE, <<>>, <<>>)
    \/ \E r \in One : LoginCredentials(r, "u1", "changeme1", "")
    \/ \E r \in One : AdminSendResetPassword(r, "u2", FALSE)
    \/ \E r \in One : AdminSendResetDelete(r, FALSE)
    \/ \E r \in One : AdminSendResetCreate(r, FALSE, TRUE)
    \/ \E r \in One, t \in 0..MaxResetTokens, p \in {"", "short", "changeme2"},
          c \in Passwords : ResetPassword(r, t, p, c, FALSE)
    \/ \E r \in One : ResetPasswordUpdate(r, FALSE)
    \/ \E r \in One : ResetPasswordDelete(r, FALSE)

SpecResetReject == Init /\ [][NextResetReject]_vars

\* C30: a ResetPassword that is rejected changes no password hash and no
\* stored reset token; it is rejected for its password only when its token is
\* valid (the token is checked first), and that token is still valid after
\* the rejection; a submission goes on to change the password only with a
\* valid token and a password of 8 characters or more.
C30_RejectedResetChangesNothing ==
    [][/\ (ev'.op = "ResetPassword" /\ ev'.status \in {400, 404})
          => /\ userPass' = userPass
             /\ resetTokens' = resetTokens
             /\ ev'.msg \in {"too short", "do not match"}
                   => /\ GetPasswordResetToken(ev'.cookie.value) # {}
                      /\ \E t \in resetTokens' :
                            /\ t.token = ev'.cookie.value
                            /\ t.expires_at > now'
             /\ (ev'.cookie.value # 0
                 /\ GetPasswordResetToken(ev'.cookie.value) = {})
                   => ev'.msg = "expired or invalid"
       /\ \A r \in Reqs :
             (req[r].pc = "handler" /\ req'[r].pc = "reset_update")
                => /\ GetPasswordResetToken(req'[r].token) # {}
                   /\ req'[r].password \notin {"", "short"}]_vars

\* A submission whose confirmation differed was rejected, and its token is
\* still stored and valid, with the password of its user as it was.
C30_Witness ==
    /\ ev.op = "ResetPassword" /\ ev.status = 400
    /\ ev.msg = "do not match"
    /\ GetPasswordResetToken(ev.cookie.value) # {}
    /\ \A t \in GetPasswordResetToken(ev.cookie.value) :
          userPass[t.user_id] = Hash("changeme1")
    /\ now > 0

====
